---- MODULE Spec2Model ----
(***************************************************************************)
(* Model of lint4jsondb.py: the command tokenizer, the compiler-dialect    *)
(* visitors, JsonDbEntry and the streaming compilation-database reader.    *)
(*                                                                         *)
(* Strings are sequences of one-character strings, so that startswith,     *)
(* slicing, substring search and tokenization are computed as the code     *)
(* computes them.                                                          *)
(***************************************************************************)
EXTENDS Integers, Sequences, FiniteSets, TLC

VARIABLES
    tok_in,        \* tokenize_command: the argument `command`
    tok_out,       \* tokenize_command: the returned list
    tok_pc,        \* "ready" before the call, "done" after it
    m_path,        \* matches(): the argument `command`
    m_gcc,         \* result of GccCompatibleVisitor.matches
    m_msvc,        \* result of MSVCCompatibleVisitor.matches
    m_done,        \* which of the two matches() calls have returned
    heap,          \* the Invocation objects created so far, by identity
    visitors,      \* TOKEN_VISITORS: the two module-level visitor instances
    current_item,  \* Lint4JsonCompilationDb._current_item
    items,         \* Lint4JsonCompilationDb.items
    err,           \* the exception that has propagated to the caller, or "None"
    stack,         \* ijson.parse: the containers that are open, outermost first
    rd_pc,         \* read_json_db: "start", "parsing" or "eof"
    doc_top,       \* the kind of the document's top-level value
    doc_elems,     \* how many elements of a top-level array have been started
    doc_events,    \* how many non-closing events the document has produced
    doc_objs,      \* how many object elements of a top-level array have been started
    last_event,    \* the (prefix, event, value) triple handled last
    f_include,     \* __init__: the include_only patterns, in iteration order
    f_exclude,     \* __init__: the exclude_all patterns, in iteration order
    f_loaded,      \* items as read_json_db left them
    f_pc,          \* "loaded" before the two filter loops, "done" after them
    v_active,      \* the visitor between start_invocation and end_invocation
    v_last,        \* the visitor method called last and its argument
    v_visits,      \* how many derive_invocation_from calls have been made
    x_lint_path,   \* LintExecutor.__init__: the argument lint_path
    x_lint_binary, \* LintExecutor.__init__: the argument lint_binary
    x_other_args,  \* LintExecutor.__init__: the argument other_args
    x_args,        \* LintExecutor.args
    x_item,        \* execute: the argument item_to_process
    x_fs,          \* the directories that exist in the file system
    x_exists,      \* execute: what os.path.exists(directory) returned
    x_log,         \* the os and subprocess calls execute has made, in order
    x_err,         \* the exception execute has raised, or "None"
    x_pc,          \* "new" before __init__, "ready" before execute, "done" after
    p_num_threads, \* ThreadPool.__init__: the argument num_threads
    p_ntasks,      \* map: len(args_list); task t is the call func(args_list[t-1])
    p_queue,       \* ThreadPool.tasks: the tasks put and not yet got
    p_unfinished,  \* ThreadPool.tasks.unfinished_tasks
    p_next,        \* map: the element of args_list that is added next
    p_main,        \* the caller: "map", "wait_completion" or "returned"
    p_worker,      \* per Worker: where run() is, its task, the Lock it holds
    p_ran,         \* per task: the Workers that have called func for it, in order
    p_raised       \* the tasks whose func has raised an Exception

tokVars   == <<tok_in, tok_out, tok_pc>>
matchVars == <<m_path, m_gcc, m_msvc, m_done>>
dbVars    == <<heap, visitors, current_item, items, err>>
rdVars    == <<stack, rd_pc, doc_top, doc_elems, doc_events, doc_objs, last_event>>
filterVars == <<f_include, f_exclude, f_loaded, f_pc>>
visitVars == <<v_active, v_last, v_visits>>
execVars  == <<x_lint_path, x_lint_binary, x_other_args, x_args, x_item, x_fs,
               x_exists, x_log, x_err, x_pc>>
poolVars  == <<p_num_threads, p_ntasks, p_queue, p_unfinished, p_next, p_main,
               p_worker, p_ran, p_raised>>
runVars   == <<visitVars, execVars, poolVars>>
vars      == <<tokVars, matchVars, dbVars, rdVars, filterVars, runVars>>

----------------------------------------------------------------------------
(* Bounds *)
MaxCmdLen   == 4    \* longest command string given to tokenize_command
MaxPathSegs == 3    \* most path components of an executable path
MaxArgs     == 3    \* most elements of one record's arguments array
MaxRecords  == 2    \* most records created in one run
MaxDepth    == 3    \* deepest nesting of containers in a document
MaxDocEvents == 8   \* most non-closing parse events of one document
MaxItems    == 2    \* most loaded records given to the filter loops
MaxPatterns == 2    \* most patterns in include_only and in exclude_all
MaxStarts   == 2    \* most start_invocation calls on the visitors
MaxVisits   == 3    \* most derive_invocation_from calls on the visitors
MaxFlags    == 2    \* most user flags given to LintExecutor
MaxInvLen   == 2    \* most defines and most includes of an executed record
MaxThreads  == 2    \* most Workers of a ThreadPool
MaxTasks    == 3    \* most records given to ThreadPool.map

----------------------------------------------------------------------------
(* String helpers *)

None == <<"None">>      \* Python's None; no string contains the character "None"

SeqsUpTo(S, n) == UNION {[1..k -> S] : k \in 0..n}

\* str.startswith(prefix)
StartsWith(s, prefix) ==
    /\ Len(s) >= Len(prefix)
    /\ SubSeq(s, 1, Len(prefix)) = prefix

\* s[k:]
SliceFrom(s, k) == SubSeq(s, k + 1, Len(s))

\* `sub in s` for strings
IsSubstring(sub, s) ==
    \E i \in 1..(Len(s) - Len(sub) + 1) : SubSeq(s, i, i + Len(sub) - 1) = sub

\* os.path.split(p)[1]: the part after the last "/"
RECURSIVE LastSlash(_, _)
LastSlash(p, i) ==
    IF i = 0 THEN 0
    ELSE IF p[i] = "/" THEN i
    ELSE LastSlash(p, i - 1)

PathSplitTail(p) == SliceFrom(p, LastSlash(p, Len(p)))

----------------------------------------------------------------------------
(* tokenize_command *)

\* the loop splitting at every space, also inside a quoted region
RECURSIVE tokenize_loop_ignoring_quotes(_, _, _, _, _)
tokenize_loop_ignoring_quotes(command, i, tokens, current_token, in_string) ==
    IF i > Len(command)
    THEN Append(tokens, current_token)
    ELSE IF command[i] = "\""
    THEN tokenize_loop_ignoring_quotes(command, i + 1, tokens, current_token,
                                       ~in_string)
    ELSE IF command[i] = " "
    THEN IF current_token # <<>>
         THEN tokenize_loop_ignoring_quotes(command, i + 1,
                  Append(tokens, current_token), <<>>, in_string)
         ELSE tokenize_loop_ignoring_quotes(command, i + 1, tokens,
                                            current_token, in_string)
    ELSE tokenize_loop_ignoring_quotes(command, i + 1, tokens,
             Append(current_token, command[i]), in_string)

RECURSIVE tokenize_loop(_, _, _, _, _)
tokenize_loop(command, i, tokens, current_token, in_string) ==
    IF i > Len(command)
    THEN Append(tokens, current_token)
    ELSE IF command[i] = "\""
    THEN tokenize_loop(command, i + 1, tokens, current_token, ~in_string)
    ELSE IF command[i] = " " /\ ~in_string
    THEN IF current_token # <<>>
         THEN tokenize_loop(command, i + 1, Append(tokens, current_token),
                            <<>>, in_string)
         ELSE tokenize_loop(command, i + 1, tokens, current_token, in_string)
    ELSE tokenize_loop(command, i + 1, tokens,
                       Append(current_token, command[i]), in_string)

tokenize_command(command) == tokenize_loop(command, 1, <<>>, <<>>, FALSE)

----------------------------------------------------------------------------
(* The visitors' matches() *)

COMMAND_PREFIXES ==
    { <<"c","l","a","n","g">>, <<"c","l","a","n","g","+","+">>,
      <<"g","c","c">>, <<"c","c">>, <<"g","+","+">>, <<"c","+","+">>,
      <<"c","p","p">> }

COMPILER == { <<"c","l",".","e","x","e">> }

GccMatches(command) ==
    LET executable == PathSplitTail(command)
    IN  \E cmd \in COMMAND_PREFIXES : IsSubstring(cmd, command)

MsvcMatches(command) ==
    LET executable == PathSplitTail(command)
    IN  executable \in COMPILER

----------------------------------------------------------------------------
(* Invocation objects and the visitors' scratch state *)

Invocation == [includes |-> <<>>, defines |-> <<>>]

\* a reference to one list of one Invocation object; obj = 0 is Python's None
NoTarget == [obj |-> 0, list |-> "None"]

BaseVisitor == [_invocation |-> 0, _store_next_param_in |-> NoTarget]

TOKEN_VISITORS == <<"gcc", "msvc">>

\* vh is a pair [v |-> one visitor's fields, heap |-> the Invocation objects]
AppendTo(hp, target, param) ==
    [hp EXCEPT ![target.obj][target.list] = Append(@, param)]

start_invocation(vh) ==
    [v    |-> [vh.v EXCEPT !._invocation = Len(vh.heap) + 1],
     heap |-> Append(vh.heap, Invocation)]

end_invocation(vh) == vh.v._invocation

BaseDerive(vh, param) ==
    IF vh.v._store_next_param_in # NoTarget
    THEN [v    |-> [vh.v EXCEPT !._store_next_param_in = NoTarget],
          heap |-> AppendTo(vh.heap, vh.v._store_next_param_in, param)]
    ELSE vh

GccDerive(vh, param) ==
    IF param = <<"-","D">>
    THEN [vh EXCEPT !.v._store_next_param_in =
                        [obj |-> vh.v._invocation, list |-> "defines"]]
    ELSE IF StartsWith(param, <<"-","D">>)
    THEN [vh EXCEPT !.heap[vh.v._invocation].defines =
                        Append(@, SliceFrom(param, 2))]
    ELSE IF param \in {<<"-","I">>, <<"-","i","s","y","s","t","e","m">>}
    THEN [vh EXCEPT !.v._store_next_param_in =
                        [obj |-> vh.v._invocation, list |-> "includes"]]
    ELSE IF StartsWith(param, <<"-","I">>)
    THEN [vh EXCEPT !.heap[vh.v._invocation].includes =
                        Append(@, SliceFrom(param, 2))]
    ELSE BaseDerive(vh, param)

\* a bare /I, -I, /D or -D only arming the target for the following token
MsvcDerive_two_token(vh, param) ==
    LET target ==
            IF StartsWith(param, <<"/","I">>) \/ StartsWith(param, <<"-","I">>)
            THEN [obj |-> vh.v._invocation, list |-> "includes"]
            ELSE IF StartsWith(param, <<"/","D">>)
                    \/ StartsWith(param, <<"-","D">>)
            THEN [obj |-> vh.v._invocation, list |-> "defines"]
            ELSE vh.v._store_next_param_in
    IN  IF Len(param) = 2 /\ target # vh.v._store_next_param_in
        THEN [vh EXCEPT !.v._store_next_param_in = target]
        ELSE IF target # NoTarget
        THEN [v    |-> [vh.v EXCEPT !._store_next_param_in = NoTarget],
              heap |-> AppendTo(vh.heap, target,
                                IF target = vh.v._store_next_param_in
                                THEN param ELSE SliceFrom(param, 2))]
        ELSE vh

MsvcDerive(vh, param) ==
    LET target ==
            IF StartsWith(param, <<"/","I">>) \/ StartsWith(param, <<"-","I">>)
            THEN [obj |-> vh.v._invocation, list |-> "includes"]
            ELSE IF StartsWith(param, <<"/","D">>)
                    \/ StartsWith(param, <<"-","D">>)
            THEN [obj |-> vh.v._invocation, list |-> "defines"]
            ELSE vh.v._store_next_param_in
    IN  IF target # NoTarget
        THEN [v    |-> [vh.v EXCEPT !._store_next_param_in = NoTarget],
              heap |-> AppendTo(vh.heap, target, SliceFrom(param, 2))]
        ELSE vh

Matches(p, command) ==
    IF p = "gcc" THEN GccMatches(command) ELSE MsvcMatches(command)

derive_invocation_from(p, vh, param) ==
    IF p = "gcc" THEN GccDerive(vh, param) ELSE MsvcDerive(vh, param)

\* for token in self._tokens[1:]: p.derive_invocation_from(token)
RECURSIVE DeriveAll(_, _, _, _)
DeriveAll(p, vh, tokens, i) ==
    IF i > Len(tokens) THEN vh
    ELSE DeriveAll(p, derive_invocation_from(p, vh, tokens[i]), tokens, i + 1)

----------------------------------------------------------------------------
(* JsonDbEntry *)

Method == <<"bound method">>   \* an attribute that still is the class's method

NoInvocation == [kind |-> "None", id |-> 0, val |-> <<>>]
InvocationRef(n) == [kind |-> "Invocation", id |-> n, val |-> <<>>]
InvocationStr(s) == [kind |-> "str", id |-> 0, val |-> s]

JsonDbEntry ==
    [directory |-> None, command |-> None, file |-> None, arguments |-> <<>>,
     _tokens |-> <<>>, invocation |-> NoInvocation,
     store |-> Method, finish |-> Method]

NoItem == [JsonDbEntry EXCEPT !.store = None, !.finish = None]  \* _current_item is None

\* JsonDbEntry.store(name, value); value = None for events that carry no value
store(e, name, value) ==
    IF value = None THEN e
    ELSE IF name \in {"directory", "command", "file"}
    THEN [e EXCEPT ![name] = value]
    ELSE IF name \in {"arguments", "_tokens"}
    THEN [e EXCEPT ![name] = Append(@, value)]
    ELSE IF name = "invocation"
    THEN [e EXCEPT !.invocation = InvocationStr(value)]
    ELSE IF name \in {"store", "finish"}
    THEN [e EXCEPT ![name] = value]
    ELSE e          \* AttributeError, eaten

\* the two assignments in the other order: a command would win over arguments
finish_tokens_command_wins(e) ==
    LET fromArguments ==
            IF Len(e.arguments) > 0 THEN e.arguments ELSE e._tokens
    IN  IF e.command # None /\ e.command # <<>>
        THEN tokenize_command(e.command)
        ELSE fromArguments

\* the token source of a record: arguments, else the tokenized command
finish_tokens(e) ==
    LET fromCommand ==
            IF e.command # None /\ e.command # <<>>
            THEN tokenize_command(e.command)
            ELSE e._tokens
    IN  IF Len(e.arguments) > 0 THEN e.arguments ELSE fromCommand

\* the loop over TOKEN_VISITORS; st = [e, visitors, heap, err]
RECURSIVE finish_loop(_, _)
finish_loop(st, k) ==
    IF k > Len(TOKEN_VISITORS) THEN st
    ELSE IF Len(st.e._tokens) = 0
    THEN [st EXCEPT !.err = "AssertionError"]
    ELSE LET p == TOKEN_VISITORS[k] IN
         IF Matches(p, st.e._tokens[1])
         THEN LET vh0 == start_invocation([v |-> st.visitors[p],
                                           heap |-> st.heap])
                  vh1 == DeriveAll(p, vh0, st.e._tokens, 2)
              IN  finish_loop(
                      [e        |-> [st.e EXCEPT !.invocation =
                                        InvocationRef(end_invocation(vh1))],
                       visitors |-> [st.visitors EXCEPT ![p] = vh1.v],
                       heap     |-> vh1.heap,
                       err      |-> st.err], k + 1)
         ELSE finish_loop(st, k + 1)

finish(e, vis, hp) ==
    finish_loop([e        |-> [e EXCEPT !._tokens = finish_tokens(e)],
                 visitors |-> vis,
                 heap     |-> hp,
                 err      |-> "None"], 1)

----------------------------------------------------------------------------
(* Lint4JsonCompilationDb: the handlers called by read_json_db *)

NoEvent == [prefix |-> <<>>, event |-> "None", value |-> None]

\* start_item
start_item ==
    /\ current_item' = JsonDbEntry
    /\ UNCHANGED <<heap, visitors, items, err>>

\* end_item putting the finished record at the front of items
end_item_prepends ==
    IF current_item.finish # Method
    THEN /\ err' = (IF current_item = NoItem THEN "AttributeError"
                    ELSE "TypeError")
         /\ UNCHANGED <<heap, visitors, current_item, items>>
    ELSE LET r == finish(current_item, visitors, heap) IN
         IF r.err # "None"
         THEN /\ err' = r.err
              /\ current_item' = r.e
              /\ UNCHANGED <<heap, visitors, items>>
         ELSE /\ items' = <<r.e>> \o items
              /\ current_item' = NoItem
              /\ heap' = r.heap
              /\ visitors' = r.visitors
              /\ err' = "None"

\* end_item: finish() raising leaves items and _current_item as they are
end_item ==
    IF current_item.finish # Method
    THEN /\ err' = (IF current_item = NoItem THEN "AttributeError"
                    ELSE "TypeError")
         /\ UNCHANGED <<heap, visitors, current_item, items>>
    ELSE LET r == finish(current_item, visitors, heap) IN
         IF r.err # "None"
         THEN /\ err' = r.err
              /\ current_item' = r.e
              /\ UNCHANGED <<heap, visitors, items>>
         ELSE /\ items' = Append(items, r.e)
              /\ current_item' = NoItem
              /\ heap' = r.heap
              /\ visitors' = r.visitors
              /\ err' = "None"

\* forward: prefix.split('.') of a prefix of n components has max(n, 1) parts
forward(prefix, value) ==
    IF Len(prefix) > 1
    THEN IF current_item = NoItem
         THEN /\ err' = "AttributeError"
              /\ UNCHANGED <<heap, visitors, current_item, items>>
         ELSE IF current_item.store # Method
         THEN /\ err' = "TypeError"
              /\ UNCHANGED <<heap, visitors, current_item, items>>
         ELSE /\ current_item' = store(current_item, prefix[2], value)
              /\ UNCHANGED <<heap, visitors, items, err>>
    ELSE UNCHANGED dbVars

\* the body of the loop of read_json_db for one (prefix, event, value)
HandleEvent(prefix, event, value) ==
    /\ last_event' = [prefix |-> prefix, event |-> event, value |-> value]
    /\ IF prefix = <<"item">>
       THEN IF event = "start_map" THEN start_item
            ELSE IF event = "end_map" THEN end_item
            ELSE UNCHANGED dbVars
       ELSE forward(prefix, value)

----------------------------------------------------------------------------
(* ijson.parse: the events of a well-formed document, produced one by one *)

Keys == {"directory", "command", "file", "arguments", "key", "item",
         "_tokens", "invocation", "store", "finish"}

KeyStr ==
    [k \in Keys |->
        CASE k = "directory"  -> <<"d","i","r","e","c","t","o","r","y">>
          [] k = "command"    -> <<"c","o","m","m","a","n","d">>
          [] k = "file"       -> <<"f","i","l","e">>
          [] k = "arguments"  -> <<"a","r","g","u","m","e","n","t","s">>
          [] k = "key"        -> <<"k","e","y">>
          [] k = "item"       -> <<"i","t","e","m">>
          [] k = "_tokens"    -> <<"_","t","o","k","e","n","s">>
          [] k = "invocation" -> <<"i","n","v","o","c","a","t","i","o","n">>
          [] k = "store"      -> <<"s","t","o","r","e">>
          [] k = "finish"     -> <<"f","i","n","i","s","h">>]

DocValues == { <<"c","c">>, <<"-","D","X">> }

ArrayFrame == [type |-> "array", key |-> "item"]
MapFrame   == [type |-> "map", key |-> ""]      \* key "": a key comes next

\* the prefix ijson gives to a value inside the open containers st
Prefix(st) == [i \in 1..Len(st) |-> st[i].key]

Front(st) == SubSeq(st, 1, Len(st) - 1)

\* a value is accepted: at the top level, in an array, or after a map key
AcceptsValue ==
    \/ rd_pc = "start"
    \/ /\ rd_pc = "parsing"
       /\ stack[Len(stack)].type = "array" \/ stack[Len(stack)].key # ""

\* the containers after the innermost one has received a complete value
ValueDone(st) ==
    IF Len(st) > 0 /\ st[Len(st)].type = "map"
    THEN [st EXCEPT ![Len(st)].key = ""]
    ELSE st

OpenContainer(type) ==
    /\ err = "None"
    /\ AcceptsValue
    /\ Len(stack) < MaxDepth
    /\ doc_events < MaxDocEvents
    /\ HandleEvent(Prefix(stack), "start_" \o type, None)
    /\ stack' = Append(stack, IF type = "map" THEN MapFrame ELSE ArrayFrame)
    /\ rd_pc' = "parsing"
    /\ doc_top' = (IF rd_pc = "start" THEN type ELSE doc_top)
    /\ doc_elems' = (IF Len(stack) = 1 /\ doc_top = "array"
                     THEN doc_elems + 1 ELSE doc_elems)
    /\ doc_objs' = (IF type = "map" /\ Len(stack) = 1 /\ doc_top = "array"
                    THEN doc_objs + 1 ELSE doc_objs)
    /\ doc_events' = doc_events + 1
    /\ UNCHANGED <<tokVars, matchVars, filterVars, runVars>>

StartMap == OpenContainer("map")

StartArray == OpenContainer("array")

Scalar ==
    \E v \in DocValues :
        /\ err = "None"
        /\ AcceptsValue
        /\ doc_events < MaxDocEvents
        /\ HandleEvent(Prefix(stack), "string", v)
        /\ stack' = ValueDone(stack)
        /\ rd_pc' = (IF rd_pc = "start" THEN "eof" ELSE rd_pc)
        /\ doc_top' = (IF rd_pc = "start" THEN "scalar" ELSE doc_top)
        /\ doc_elems' = (IF Len(stack) = 1 /\ doc_top = "array"
                         THEN doc_elems + 1 ELSE doc_elems)
        /\ doc_events' = doc_events + 1
        /\ UNCHANGED <<doc_objs, tokVars, matchVars, filterVars, runVars>>

MapKey ==
    \E k \in Keys :
        /\ err = "None"
        /\ rd_pc = "parsing"
        /\ stack[Len(stack)] = MapFrame
        /\ doc_events < MaxDocEvents
        /\ HandleEvent(Prefix(Front(stack)), "map_key", KeyStr[k])
        /\ stack' = [stack EXCEPT ![Len(stack)].key = k]
        /\ doc_events' = doc_events + 1
        /\ UNCHANGED <<rd_pc, doc_top, doc_elems, doc_objs, tokVars, matchVars,
                       filterVars, runVars>>

CloseContainer ==
    /\ err = "None"
    /\ rd_pc = "parsing"
    /\ stack[Len(stack)] \in {MapFrame, ArrayFrame}
    /\ HandleEvent(Prefix(Front(stack)), "end_" \o stack[Len(stack)].type, None)
    /\ stack' = ValueDone(Front(stack))
    /\ rd_pc' = (IF Len(stack) = 1 THEN "eof" ELSE rd_pc)
    /\ UNCHANGED <<doc_top, doc_elems, doc_events, doc_objs, tokVars, matchVars,
                   filterVars, runVars>>

----------------------------------------------------------------------------
(* Specifications *)

TokIdle == tok_in = <<>> /\ tok_out = <<>> /\ tok_pc = "idle"

MatchIdle == m_path = <<>> /\ m_gcc = FALSE /\ m_msvc = FALSE /\ m_done = {}

DbInit ==
    /\ heap = <<>>
    /\ visitors = [p \in {"gcc", "msvc"} |-> BaseVisitor]
    /\ current_item = NoItem
    /\ items = <<>>
    /\ err = "None"

RdInit ==
    /\ stack = <<>>
    /\ rd_pc = "start"
    /\ doc_top = "None"
    /\ doc_elems = 0
    /\ doc_events = 0
    /\ doc_objs = 0
    /\ last_event = NoEvent

FilterIdle ==
    /\ f_include = <<>>
    /\ f_exclude = <<>>
    /\ f_loaded = <<>>
    /\ f_pc = "idle"

\* Lint4JsonCompilationDb.read_json_db over every well-formed document
VisitIdle ==
    /\ v_active = "None"
    /\ v_last = [p |-> "None", op |-> "None", param |-> None]
    /\ v_visits = 0

ExecIdle ==
    /\ x_lint_path = <<>>
    /\ x_lint_binary = <<>>
    /\ x_other_args = <<>>
    /\ x_args = <<>>
    /\ x_item = NoItem
    /\ x_fs = {}
    /\ x_exists = FALSE
    /\ x_log = <<>>
    /\ x_err = "None"
    /\ x_pc = "idle"

PoolIdle ==
    /\ p_num_threads = 0
    /\ p_ntasks = 0
    /\ p_queue = <<>>
    /\ p_unfinished = 0
    /\ p_next = 1
    /\ p_main = "idle"
    /\ p_worker = <<>>
    /\ p_ran = <<>>
    /\ p_raised = {}

RunIdle == VisitIdle /\ ExecIdle /\ PoolIdle

Init == TokIdle /\ MatchIdle /\ DbInit /\ RdInit /\ FilterIdle /\ RunIdle

Next == StartMap \/ StartArray \/ Scalar \/ MapKey \/ CloseContainer

Spec == Init /\ [][Next]_vars

----------------------------------------------------------------------------
(* JsonDbEntry objects built from argument vectors and finished in turn,   *)
(* as start_item / store / end_item do for the records of one document     *)

EntryTokens ==
    { <<"c","c">>, <<"c","c","/","c","l",".","e","x","e">>,
      <<"c","l",".","e","x","e">>, <<"-","D">>, <<"-","D","X">>,
      <<"-","I">>, <<"o">> }

EntryNew ==
    /\ err = "None"
    /\ current_item = NoItem
    /\ Len(items) < MaxRecords
    /\ start_item
    /\ UNCHANGED <<tokVars, matchVars, rdVars, filterVars, runVars>>

EntryStore ==
    \E t \in EntryTokens :
        /\ err = "None"
        /\ current_item # NoItem
        /\ Len(current_item.arguments) < MaxArgs
        /\ current_item' = store(current_item, "arguments", t)
        /\ UNCHANGED <<heap, visitors, items, err, tokVars, matchVars, rdVars, filterVars, runVars>>

EntryFinish ==
    /\ err = "None"
    /\ current_item # NoItem
    /\ end_item
    /\ UNCHANGED <<tokVars, matchVars, rdVars, filterVars, runVars>>

NextEntry == EntryNew \/ EntryStore \/ EntryFinish

SpecEntry == Init /\ [][NextEntry]_vars

----------------------------------------------------------------------------
(* The visitors driven call by call, as JsonDbEntry.finish drives them:    *)
(* start_invocation, derive_invocation_from per token, end_invocation      *)

VisitTokens ==
    { <<"-","D">>, <<"-","D","X">>, <<"-","I">>, <<"-","I","y">>,
      <<"-","i","s","y","s","t","e","m">>, <<"/","I","y">>, <<"/","D">>,
      <<"o">> }

VisitStart ==
    \E p \in {"gcc", "msvc"} :
        /\ v_active = "None"
        /\ Len(heap) < MaxStarts
        /\ LET vh == start_invocation([v |-> visitors[p], heap |-> heap]) IN
             /\ heap' = vh.heap
             /\ visitors' = [visitors EXCEPT ![p] = vh.v]
        /\ v_active' = p
        /\ v_last' = [p |-> p, op |-> "start_invocation", param |-> None]
        /\ UNCHANGED <<v_visits, current_item, items, err, tokVars, matchVars,
                       rdVars, filterVars,
                   execVars, poolVars>>

VisitDerive ==
    \E t \in VisitTokens :
        /\ v_active # "None"
        /\ v_visits < MaxVisits
        /\ LET vh == derive_invocation_from(
                         v_active, [v |-> visitors[v_active], heap |-> heap], t)
           IN  /\ heap' = vh.heap
               /\ visitors' = [visitors EXCEPT ![v_active] = vh.v]
        /\ v_last' = [p |-> v_active, op |-> "derive_invocation_from",
                      param |-> t]
        /\ v_visits' = v_visits + 1
        /\ UNCHANGED <<v_active, current_item, items, err, tokVars, matchVars,
                       rdVars, filterVars,
                   execVars, poolVars>>

VisitEnd ==
    /\ v_active # "None"
    /\ v_last' = [p |-> v_active, op |-> "end_invocation", param |-> None]
    /\ v_active' = "None"
    /\ UNCHANGED <<v_visits, dbVars, tokVars, matchVars, rdVars, filterVars,
                   execVars, poolVars>>

NextVisit == VisitStart \/ VisitDerive \/ VisitEnd

SpecVisit == Init /\ [][NextVisit]_vars

----------------------------------------------------------------------------
(* Lint4JsonCompilationDb.__init__ after read_json_db: the two filter loops *)

\* re.compile(regexp).match(file) for a regexp without metacharacters:
\* the file starts with the pattern's text
ReMatch(regexp, file) == StartsWith(file, regexp)

\* the comprehension walking self.items from the back
FilterOnce_reversed(st, regexp, keep) ==
    IF st.err # "None" THEN st
    ELSE IF \E k \in 1..Len(st.items) : st.items[k].file = None
    THEN [st EXCEPT !.err = "TypeError"]
    ELSE LET kept == SelectSeq(st.items,
                               LAMBDA i : ReMatch(regexp, i.file) = keep)
         IN  [st EXCEPT !.items =
                 [k \in 1..Len(kept) |-> kept[Len(kept) + 1 - k]]]

\* one `self.items[:] = [i for i in self.items if ...]`; r.match(None) raises
FilterOnce(st, regexp, keep) ==
    IF st.err # "None" THEN st
    ELSE IF \E k \in 1..Len(st.items) : st.items[k].file = None
    THEN [st EXCEPT !.err = "TypeError"]
    ELSE [st EXCEPT !.items =
             SelectSeq(@, LAMBDA i : ReMatch(regexp, i.file) = keep)]

RECURSIVE FilterLoop(_, _, _, _)
FilterLoop(st, regexps, n, keep) ==
    IF n > Len(regexps) THEN st
    ELSE FilterLoop(FilterOnce(st, regexps[n], keep), regexps, n + 1, keep)

FilterItems(its, include_only, exclude_all) ==
    FilterLoop(FilterLoop([items |-> its, err |-> "None"],
                          include_only, 1, TRUE),
               exclude_all, 1, FALSE)

FilterFiles == { None, <<"a">>, <<"a","b">>, <<"b">> }

FilterPatterns == { <<>>, <<"a">>, <<"a","b">>, <<"b">> }

\* a record as read_json_db leaves it for {"command": "ld", "file": f}
LoadedEntry(f) ==
    [JsonDbEntry EXCEPT !.command = <<"l","d">>, !.file = f,
                        !._tokens = << <<"l","d">> >>]

InitFilter ==
    /\ f_loaded \in {[k \in DOMAIN fs |-> LoadedEntry(fs[k])] :
                        fs \in SeqsUpTo(FilterFiles, MaxItems)}
    /\ items = f_loaded
    /\ f_include \in SeqsUpTo(FilterPatterns, MaxPatterns)
    /\ f_exclude \in SeqsUpTo(FilterPatterns, MaxPatterns)
    /\ f_pc = "loaded"
    /\ heap = <<>>
    /\ visitors = [p \in {"gcc", "msvc"} |-> BaseVisitor]
    /\ current_item = NoItem
    /\ err = "None"
    /\ stack = <<>>
    /\ rd_pc = "eof"
    /\ doc_top = "array"
    /\ doc_elems = Len(f_loaded)
    /\ doc_events = 0
    /\ doc_objs = Len(f_loaded)
    /\ last_event = NoEvent
    /\ TokIdle /\ MatchIdle /\ RunIdle

Filter ==
    /\ f_pc = "loaded"
    /\ LET r == FilterItems(items, f_include, f_exclude) IN
         /\ items' = r.items
         /\ err' = r.err
    /\ f_pc' = "done"
    /\ UNCHANGED <<heap, visitors, current_item, f_include, f_exclude,
                   f_loaded, tokVars, matchVars, rdVars, runVars>>

NextFilter == Filter

SpecFilter == InitFilter /\ [][NextFilter]_vars

----------------------------------------------------------------------------
(* tokenize_command as a pure function *)

TokAlphabet == {"a", "-", " ", "\""}

InitTokenize ==
    /\ tok_in \in SeqsUpTo(TokAlphabet, MaxCmdLen)
    /\ tok_out = <<>>
    /\ tok_pc = "ready"
    /\ MatchIdle /\ DbInit /\ RdInit /\ FilterIdle /\ RunIdle

Tokenize ==
    /\ tok_pc = "ready"
    /\ tok_out' = tokenize_command(tok_in)
    /\ tok_pc' = "done"
    /\ UNCHANGED <<tok_in, matchVars, dbVars, rdVars, filterVars, runVars>>

NextTokenize == Tokenize

SpecTokenize == InitTokenize /\ [][NextTokenize]_vars

----------------------------------------------------------------------------
(* The two matches() methods as pure functions *)

PathNames ==
    { <<>>, <<"l","d">>, <<"g","c","c">>, <<"c","l",".","e","x","e">>,
      <<"c","l","a","n","g","+","+">>, <<"c","l",".","e","x","e",".","b">> }

RECURSIVE JoinPath(_)
JoinPath(segs) ==
    IF Len(segs) = 0 THEN <<>>
    ELSE IF Len(segs) = 1 THEN segs[1]
    ELSE segs[1] \o <<"/">> \o JoinPath(Tail(segs))

InitMatches ==
    /\ m_path \in {JoinPath(segs) : segs \in SeqsUpTo(PathNames, MaxPathSegs)}
    /\ m_gcc = FALSE
    /\ m_msvc = FALSE
    /\ m_done = {}
    /\ TokIdle /\ DbInit /\ RdInit /\ FilterIdle /\ RunIdle

MatchGcc ==
    /\ "gcc" \notin m_done
    /\ m_gcc' = GccMatches(m_path)
    /\ m_done' = m_done \cup {"gcc"}
    /\ UNCHANGED <<m_path, m_msvc, tokVars, dbVars, rdVars, filterVars, runVars>>

MatchMsvc ==
    /\ "msvc" \notin m_done
    /\ m_msvc' = MsvcMatches(m_path)
    /\ m_done' = m_done \cup {"msvc"}
    /\ UNCHANGED <<m_path, m_gcc, tokVars, dbVars, rdVars, filterVars, runVars>>

NextMatches == MatchGcc \/ MatchMsvc

SpecMatches == InitMatches /\ [][NextMatches]_vars

----------------------------------------------------------------------------
(* LintExecutor: __init__ and execute on one record.  The external tool is  *)
(* taken to be installed; what it prints is not modelled.                   *)

\* os.path.join(a, b) of posixpath
OsPathJoin(a, b) ==
    IF StartsWith(b, <<"/">>) THEN b
    ELSE IF a = <<>> \/ a[Len(a)] = "/" THEN a \o b
    ELSE a \o <<"/">> \o b

\* LintExecutor.__init__: the value of self.args
LintExecutorArgs(lint_path, lint_binary, other_args) ==
    << OsPathJoin(lint_path, lint_binary),
       <<"-", "b">>,
       <<"-", "i", "\"">> \o lint_path \o <<"/", "l", "n", "t", "\"">> >>
    \o other_args

\* execute: the list `arguments` handed to subprocess.Popen
execute_arguments(args, inv, file) ==
    args
    \o [k \in 1..Len(inv.defines) |-> <<"-", "d">> \o inv.defines[k]]
    \o [k \in 1..Len(inv.includes) |->
            <<"-", "i", "\"">> \o inv.includes[k] \o <<"\"">>]
    \o <<file>>

Makedirs(d) == [op |-> "makedirs", dir |-> d, argv |-> <<>>]
Popen(argv, cwd) == [op |-> "Popen", dir |-> cwd, argv |-> argv]
PrintStdout == [op |-> "print", dir |-> None, argv |-> <<>>]

ExecPaths == { <<"p">>, <<"q", "/">> }
ExecFlags == { <<"o">>, <<"u">> }
ExecDefines == { <<"X">>, <<"Z">> }
ExecIncludes == { <<"y">>, <<"w">> }
ExecDirectory == <<"d">>
ExecFile == <<"f">>

\* a record as read_json_db and finish leave it, and the state of the disk
InitExec ==
    /\ x_lint_path \in ExecPaths
    /\ x_lint_binary = <<"l">>
    /\ x_other_args \in SeqsUpTo(ExecFlags, MaxFlags)
    /\ x_args = <<>>
    /\ \E dir \in {None, ExecDirectory}, file \in {None, ExecFile} :
         \/ /\ heap = <<>>
            /\ \E inv \in {NoInvocation, InvocationStr(<<"s">>)} :
                 x_item = [JsonDbEntry EXCEPT !.directory = dir, !.file = file,
                                              !.invocation = inv]
         \/ /\ \E ds \in SeqsUpTo(ExecDefines, MaxInvLen),
                  is \in SeqsUpTo(ExecIncludes, MaxInvLen) :
                 heap = << [includes |-> is, defines |-> ds] >>
            /\ x_item = [JsonDbEntry EXCEPT !.directory = dir, !.file = file,
                                            !.invocation = InvocationRef(1)]
    /\ x_fs \in {{}, {ExecDirectory}}
    /\ x_exists = FALSE
    /\ x_log = <<>>
    /\ x_err = "None"
    /\ x_pc = "new"
    /\ visitors = [p \in {"gcc", "msvc"} |-> BaseVisitor]
    /\ current_item = NoItem
    /\ items = <<>>
    /\ err = "None"
    /\ TokIdle /\ MatchIdle /\ RdInit /\ FilterIdle /\ VisitIdle /\ PoolIdle

\* lint = LintExecutor(lint_path, lint_binary, other_args)
LintExecutorInit ==
    /\ x_pc = "new"
    /\ x_args' = LintExecutorArgs(x_lint_path, x_lint_binary, x_other_args)
    /\ x_pc' = "ready"
    /\ UNCHANGED <<x_lint_path, x_lint_binary, x_other_args, x_item, x_fs,
                   x_exists, x_log, x_err, tokVars, matchVars, dbVars, rdVars,
                   filterVars, visitVars, poolVars>>

\* lint.execute(item_to_process) up to the test of os.path.exists
ExecuteExists ==
    /\ x_pc = "ready"
    /\ IF x_item.invocation.kind # "Invocation"
       THEN \* inv.defines on None or on a str
            /\ x_err' = "AttributeError"
            /\ x_pc' = "done"
            /\ UNCHANGED x_exists
       ELSE IF x_item.directory = None
       THEN \* os.path.exists(None)
            /\ x_err' = "TypeError"
            /\ x_pc' = "done"
            /\ UNCHANGED x_exists
       ELSE /\ x_exists' = (x_item.directory \in x_fs)
            /\ x_pc' = "checked"
            /\ UNCHANGED x_err
    /\ UNCHANGED <<x_lint_path, x_lint_binary, x_other_args, x_args, x_item,
                   x_fs, x_log, tokVars, matchVars, dbVars, rdVars,
                   filterVars, visitVars, poolVars>>

\* the execute of another Worker, for a record of the same directory,
\* creates the directory
OtherWorkerMakedirs ==
    /\ x_pc = "checked"
    /\ x_item.directory \notin x_fs
    /\ x_fs' = x_fs \cup {x_item.directory}
    /\ UNCHANGED <<x_lint_path, x_lint_binary, x_other_args, x_args, x_item,
                   x_exists, x_log, x_err, x_pc, tokVars, matchVars, dbVars,
                   rdVars, filterVars, visitVars, poolVars>>

\* the rest of execute: os.makedirs, subprocess.Popen, communicate, print
ExecuteRun ==
    /\ x_pc = "checked"
    /\ x_pc' = "done"
    /\ LET arguments == execute_arguments(
                            x_args, heap[x_item.invocation.id], x_item.file)
           made == IF x_exists THEN <<>> ELSE << Makedirs(x_item.directory) >>
       IN  IF ~x_exists /\ x_item.directory \in x_fs
           THEN \* os.makedirs of a directory that exists by now
                /\ x_err' = "FileExistsError"
                /\ x_log' = x_log \o made
                /\ UNCHANGED x_fs
           ELSE IF x_item.file = None
           THEN \* Popen with None in the argument list
                /\ x_err' = "TypeError"
                /\ x_fs' = x_fs \cup {x_item.directory}
                /\ x_log' = x_log \o made
           ELSE /\ x_err' = "None"
                /\ x_fs' = x_fs \cup {x_item.directory}
                /\ x_log' = x_log \o made
                            \o << Popen(arguments, x_item.directory),
                                  PrintStdout >>
    /\ UNCHANGED <<x_lint_path, x_lint_binary, x_other_args, x_args, x_item,
                   x_exists, tokVars, matchVars, dbVars, rdVars, filterVars,
                   visitVars, poolVars>>

NextExec ==
    LintExecutorInit \/ ExecuteExists \/ OtherWorkerMakedirs \/ ExecuteRun

SpecExec == InitExec /\ [][NextExec]_vars

----------------------------------------------------------------------------
(* ThreadPool and Worker: pool.map(func, items) and pool.wait_completion()  *)
(* in the caller, run() in each Worker thread.  Every call of func ends,    *)
(* by returning or by raising an Exception; no KeyboardInterrupt is         *)
(* delivered to the caller.                                                 *)

Workers == 1..p_num_threads

\* a Worker blocked in self.tasks.get()
WorkerWaiting == [pc |-> "get", task |-> 0, lock |-> 0]

poolFrame == <<tokVars, matchVars, dbVars, rdVars, filterVars, visitVars,
               execVars>>

\* pool = ThreadPool(num_threads): the queue is empty, the Workers are started
InitPool ==
    /\ p_num_threads \in 1..MaxThreads
    /\ p_ntasks \in 0..MaxTasks
    /\ p_queue = <<>>
    /\ p_unfinished = 0
    /\ p_next = 1
    /\ p_main = "map"
    /\ p_worker = [w \in 1..p_num_threads |-> WorkerWaiting]
    /\ p_ran = [t \in 1..p_ntasks |-> <<>>]
    /\ p_raised = {}
    /\ TokIdle /\ MatchIdle /\ DbInit /\ RdInit /\ FilterIdle /\ VisitIdle
    /\ ExecIdle

\* map: self.add_task(func, _args) for the next element; Queue.put blocks
\* while the queue holds num_threads tasks
add_task ==
    /\ p_main = "map"
    /\ p_next <= p_ntasks
    /\ Len(p_queue) < p_num_threads
    /\ p_queue' = Append(p_queue, p_next)
    /\ p_unfinished' = p_unfinished + 1
    /\ p_next' = p_next + 1
    /\ UNCHANGED <<p_num_threads, p_ntasks, p_main, p_worker, p_ran, p_raised,
                   poolFrame>>

\* map returns after the last element; the caller calls wait_completion
map_returns ==
    /\ p_main = "map"
    /\ p_next > p_ntasks
    /\ p_main' = "wait_completion"
    /\ UNCHANGED <<p_num_threads, p_ntasks, p_queue, p_unfinished, p_next,
                   p_worker, p_ran, p_raised, poolFrame>>

\* wait_completion returning as soon as the queue is empty
wait_completion_until_queue_empty ==
    /\ p_main = "wait_completion"
    /\ p_queue = <<>>
    /\ p_main' = "returned"
    /\ UNCHANGED <<p_num_threads, p_ntasks, p_queue, p_unfinished, p_next,
                   p_worker, p_ran, p_raised, poolFrame>>

\* wait_completion: self.tasks.join() returns when unfinished_tasks is 0
wait_completion ==
    /\ p_main = "wait_completion"
    /\ p_unfinished = 0
    /\ p_main' = "returned"
    /\ UNCHANGED <<p_num_threads, p_ntasks, p_queue, p_unfinished, p_next,
                   p_worker, p_ran, p_raised, poolFrame>>

\* run: func, _args, kwargs = self.tasks.get()
WorkerGet(w) ==
    /\ p_worker[w].pc = "get"
    /\ p_queue # <<>>
    /\ p_worker' = [p_worker EXCEPT
                       ![w] = [pc |-> "func", task |-> Head(p_queue), lock |-> 0]]
    /\ p_queue' = Tail(p_queue)
    /\ UNCHANGED <<p_num_threads, p_ntasks, p_unfinished, p_next, p_main, p_ran,
                   p_raised, poolFrame>>

\* run: func(*_args, **kwargs), that is lint.execute(item), up to its end or
\* up to `with Lock():`, which creates a Lock and acquires it; acquire blocks
\* while another thread holds the same Lock object.  The Lock created by the
\* call for task t is identified by t.
WorkerFunc(w) ==
    /\ p_worker[w].pc = "func"
    /\ p_ran' = [p_ran EXCEPT ![p_worker[w].task] = Append(@, w)]
    /\ \/ /\ p_worker' = [p_worker EXCEPT ![w].pc = "except"]
          /\ p_raised' = p_raised \cup {p_worker[w].task}
       \/ /\ \A v \in Workers : p_worker[v].lock # p_worker[w].task
          /\ p_worker' = [p_worker EXCEPT ![w].pc = "print",
                                          ![w].lock = p_worker[w].task]
          /\ UNCHANGED p_raised
    /\ UNCHANGED <<p_num_threads, p_ntasks, p_queue, p_unfinished, p_next,
                   p_main, poolFrame>>

\* execute: print(stdout), the Lock is released, func returns
WorkerPrint(w) ==
    /\ p_worker[w].pc = "print"
    /\ p_worker' = [p_worker EXCEPT ![w].pc = "finally", ![w].lock = 0]
    /\ UNCHANGED <<p_num_threads, p_ntasks, p_queue, p_unfinished, p_next,
                   p_main, p_ran, p_raised, poolFrame>>

\* an except clause that leaves the finally clause out
WorkerExcept_without_finally(w) ==
    /\ p_worker[w].pc = "except"
    /\ p_worker' = [p_worker EXCEPT ![w] = WorkerWaiting]
    /\ UNCHANGED <<p_num_threads, p_ntasks, p_queue, p_unfinished, p_next,
                   p_main, p_ran, p_raised, poolFrame>>

\* run: except Exception as e: print(e, file=sys.stderr)
WorkerExcept(w) ==
    /\ p_worker[w].pc = "except"
    /\ p_worker' = [p_worker EXCEPT ![w].pc = "finally"]
    /\ UNCHANGED <<p_num_threads, p_ntasks, p_queue, p_unfinished, p_next,
                   p_main, p_ran, p_raised, poolFrame>>

\* run: finally: self.tasks.task_done(), and the loop starts again
WorkerTaskDone(w) ==
    /\ p_worker[w].pc = "finally"
    /\ p_unfinished' = p_unfinished - 1
    /\ p_worker' = [p_worker EXCEPT ![w] = WorkerWaiting]
    /\ UNCHANGED <<p_num_threads, p_ntasks, p_queue, p_next, p_main, p_ran,
                   p_raised, poolFrame>>

WorkerRun(w) ==
    \/ WorkerGet(w)
    \/ WorkerFunc(w)
    \/ WorkerPrint(w)
    \/ WorkerExcept(w)
    \/ WorkerTaskDone(w)

Caller == add_task \/ map_returns \/ wait_completion

NextPool == Caller \/ \E w \in Workers : WorkerRun(w)

SpecPool == InitPool /\ [][NextPool]_vars

\* the threads are scheduled fairly
SpecPoolFair ==
    /\ InitPool
    /\ [][NextPool]_vars
    /\ WF_vars(Caller)
    /\ \A w \in 1..MaxThreads : WF_vars(w \in Workers /\ WorkerRun(w))

----------------------------------------------------------------------------
(* Claims *)

(* C1: in JsonDbEntry.finish the record's invocation is the one produced  *)
(* by the first visitor (GCC-compatible, then MSVC-compatible) that        *)
(* matches the first token; after a match no later visitor runs on the     *)
(* record, so a finished record creates at most one Invocation.            *)
C1_FirstMatchWins ==
    [][Len(items') = Len(items) + 1 =>
        LET r     == items'[Len(items')]
            first == r._tokens[1]
        IN  /\ GccMatches(first) =>
                 /\ r.invocation = InvocationRef(visitors'["gcc"]._invocation)
                 /\ Len(heap') = Len(heap) + 1
            /\ (~GccMatches(first) /\ MsvcMatches(first)) =>
                 /\ r.invocation = InvocationRef(visitors'["msvc"]._invocation)
                 /\ Len(heap') = Len(heap) + 1
            /\ (~GccMatches(first) /\ ~MsvcMatches(first)) =>
                 /\ r.invocation = current_item.invocation
                 /\ heap' = heap]_vars

(* C2: the visitors' scratch state is reset for each record, so the        *)
(* defines and includes of a finalized record's Invocation are never       *)
(* changed by the processing of a later record.                            *)
C2_FinalizedInvocationFrozen ==
    [][\A i \in 1..Len(items) :
          items[i].invocation.kind = "Invocation" =>
              heap'[items[i].invocation.id] = heap[items[i].invocation.id]]_vars

(* C3: a well-formed document whose top-level value is not an array, or    *)
(* is an empty array, yields zero Records and raises no error.             *)
C3_NonArrayYieldsNothing ==
    (doc_top \in {"map", "scalar"} \/ (doc_top = "array" /\ doc_elems = 0)) =>
        (items = <<>> /\ err = "None")

(* C4: after the filter loops, items is exactly the loaded records whose   *)
(* file matches at least one include-only pattern (when there is one) and  *)
(* matches no exclude-all pattern.                                         *)
C4_Kept(e) ==
    /\ f_include # <<>> =>
           \E n \in 1..Len(f_include) : ReMatch(f_include[n], e.file)
    /\ ~ \E n \in 1..Len(f_exclude) : ReMatch(f_exclude[n], e.file)

C4_FilterAnyInclude ==
    (f_pc = "done" /\ \A k \in 1..Len(f_loaded) : f_loaded[k].file # None) =>
        items = SelectSeq(f_loaded, C4_Kept)

(* C5: tokenize_command never emits an empty token, and returns the empty  *)
(* sequence for the empty input string.                                    *)
C5_NoEmptyToken ==
    tok_pc = "done" =>
        /\ \A k \in 1..Len(tok_out) : tok_out[k] # <<>>
        /\ (tok_in = <<>> => tok_out = <<>>)

(* C6: GccCompatibleVisitor.matches(command) is true iff the basename of   *)
(* the executable path contains a recognized compiler name; directory      *)
(* components never influence the result.                                  *)
C6_MatchesOnBasename ==
    "gcc" \in m_done =>
        (m_gcc <=> \E cmd \in COMMAND_PREFIXES :
                       IsSubstring(cmd, PathSplitTail(m_path)))

(* C7: a record that has no tokens when its closing marker is handled      *)
(* raises the 'Need to have at least one token' assertion; the record is   *)
(* not appended, and nothing is processed once an error has been raised.   *)
C7_ZeroTokensAbort ==
    [][/\ err = "None"
       /\ (/\ last_event'.prefix = <<"item">>
           /\ last_event'.event = "end_map"
           /\ finish_tokens(current_item) = <<>>) =>
              (err' = "AssertionError" /\ items' = items)]_vars

(* C8: for a record the GCC-compatible visitor matches, defines is, in     *)
(* token order, the values of -DVALUE and of '-D' followed by VALUE,       *)
(* includes is, in token order, the values of -IVALUE and of '-I' or       *)
(* '-isystem' followed by VALUE, and no other token contributes.           *)
RECURSIVE C8_Extract(_, _, _, _)
C8_Extract(tokens, i, armed, inv) ==
    IF i > Len(tokens) THEN inv
    ELSE LET t == tokens[i] IN
         IF armed # "None"
         THEN C8_Extract(tokens, i + 1, "None",
                         [inv EXCEPT ![armed] = Append(@, t)])
         ELSE IF t = <<"-","D">>
         THEN C8_Extract(tokens, i + 1, "defines", inv)
         ELSE IF StartsWith(t, <<"-","D">>)
         THEN C8_Extract(tokens, i + 1, "None",
                         [inv EXCEPT !.defines = Append(@, SliceFrom(t, 2))])
         ELSE IF t \in {<<"-","I">>, <<"-","i","s","y","s","t","e","m">>}
         THEN C8_Extract(tokens, i + 1, "includes", inv)
         ELSE IF StartsWith(t, <<"-","I">>)
         THEN C8_Extract(tokens, i + 1, "None",
                         [inv EXCEPT !.includes = Append(@, SliceFrom(t, 2))])
         ELSE C8_Extract(tokens, i + 1, "None", inv)

C8_GccExtractionInOrder ==
    [][(Len(items') = Len(items) + 1
        /\ GccMatches(items'[Len(items')]._tokens[1])) =>
          heap'[visitors'["gcc"]._invocation] =
              C8_Extract(items'[Len(items')]._tokens, 2, "None", Invocation)]_vars

(* C9: a finished record with a non-empty arguments array has exactly the  *)
(* arguments as its tokens and its command has no influence on the result  *)
(* of finish; a finished record with a command and no arguments has the    *)
(* tokens tokenize_command(command).                                       *)
C9_SameResult(a, b) ==
    /\ a.e._tokens = b.e._tokens
    /\ a.e.invocation = b.e.invocation
    /\ a.heap = b.heap
    /\ a.visitors = b.visitors
    /\ a.err = b.err

C9_ArgumentsPrecedence ==
    /\ \A i \in 1..Len(items) :
          /\ Len(items[i].arguments) > 0 =>
                 items[i]._tokens = items[i].arguments
          /\ (Len(items[i].arguments) = 0
              /\ items[i].command \notin {None, <<>>}) =>
                 items[i]._tokens = tokenize_command(items[i].command)
    /\ (current_item # NoItem /\ Len(current_item.arguments) > 0) =>
          \A c \in DocValues \cup {None} :
              C9_SameResult(finish(current_item, visitors, heap),
                            finish([current_item EXCEPT !.command = c],
                                   visitors, heap))

\* a finished record with a command that a visitor matches and arguments
\* that no visitor matches: its tokens are the arguments, its invocation None
C9_Witness ==
    \E i \in 1..Len(items) :
        /\ items[i].command = <<"c","c">>
        /\ items[i].arguments = << <<"-","D","X">> >>
        /\ items[i]._tokens = << <<"-","D","X">> >>
        /\ items[i].invocation = NoInvocation

\* a finished record without arguments whose command was tokenized
C9_WitnessCommand ==
    \E i \in 1..Len(items) :
        /\ items[i].command = <<"c","c">>
        /\ items[i].arguments = <<>>
        /\ items[i]._tokens = << <<"c","c">> >>
        /\ items[i].invocation.kind = "Invocation"

(* C10: storing a value under a key other than directory, command, file    *)
(* and arguments leaves the record's directory, command, file, arguments,  *)
(* tokens and invocation unchanged, and neither that store nor a later     *)
(* step raises an error because of it.                                     *)
C10_UnknownKeysIgnored ==
    [][/\ (/\ current_item # NoItem
           /\ Len(last_event'.prefix) >= 2
           /\ last_event'.prefix[2] \notin
                  {"directory", "command", "file", "arguments"}) =>
              /\ current_item'.directory = current_item.directory
              /\ current_item'.command = current_item.command
              /\ current_item'.file = current_item.file
              /\ current_item'.arguments = current_item.arguments
              /\ current_item'._tokens = current_item._tokens
              /\ current_item'.invocation = current_item.invocation
              /\ err' = "None"
       /\ err' # "TypeError"]_vars

(* C11: while a document whose top-level value is an array is read without *)
(* error, the reader is in a record exactly between an element's opening   *)
(* and closing map markers, each opening marker starts a fresh Record,     *)
(* each closing marker appends that Record at the end of items, no other   *)
(* event changes items, and items plus the record in progress count the    *)
(* object elements started so far: items is in document order.             *)
C11_InRecord(st) == Len(st) >= 2 /\ st[2].type = "map"

C11_SameFields(a, b) ==
    /\ a.directory = b.directory
    /\ a.command = b.command
    /\ a.file = b.file
    /\ a.arguments = b.arguments

C11_DocumentOrder ==
    [][(doc_top' = "array" /\ err' = "None") =>
        /\ Len(items') + (IF current_item' # NoItem THEN 1 ELSE 0) = doc_objs'
        /\ (current_item' # NoItem) <=> C11_InRecord(stack')
        /\ IF last_event'.prefix = <<"item">> /\ last_event'.event = "start_map"
           THEN /\ current_item = NoItem
                /\ current_item' = JsonDbEntry
                /\ items' = items
           ELSE IF last_event'.prefix = <<"item">>
                   /\ last_event'.event = "end_map"
           THEN /\ current_item # NoItem
                /\ current_item' = NoItem
                /\ Len(items') = Len(items) + 1
                /\ SubSeq(items', 1, Len(items)) = items
                /\ C11_SameFields(items'[Len(items')], current_item)
           ELSE /\ items' = items
                /\ (current_item' = NoItem) <=> (current_item = NoItem)]_vars

\* a two-element array read to its end: two records, in document order
C11_Witness ==
    /\ rd_pc = "eof" /\ err = "None" /\ doc_top = "array" /\ doc_objs = 2
    /\ Len(items) = 2
    /\ items[1].command = <<"c","c">>
    /\ items[2].command = <<"-","D","X">>

(* C12: the filtered items is a subsequence of the loaded items, in the    *)
(* same relative order; with include-only patterns that match every file   *)
(* and exclude-all patterns that match none, items is the loaded list,     *)
(* unchanged.                                                              *)
RECURSIVE C12_IsSubseq(_, _, _, _)
C12_IsSubseq(a, i, b, j) ==
    IF i > Len(a) THEN TRUE
    ELSE IF j > Len(b) THEN FALSE
    ELSE IF a[i] = b[j] THEN C12_IsSubseq(a, i + 1, b, j + 1)
    ELSE C12_IsSubseq(a, i, b, j + 1)

C12_OrderPreserving ==
    f_pc = "done" =>
        /\ C12_IsSubseq(items, 1, f_loaded, 1)
        /\ (/\ f_include # <<>>
            /\ \A k \in 1..Len(f_loaded) :
                  /\ f_loaded[k].file # None
                  /\ \A n \in 1..Len(f_include) :
                        ReMatch(f_include[n], f_loaded[k].file)
                  /\ \A n \in 1..Len(f_exclude) :
                        ~ReMatch(f_exclude[n], f_loaded[k].file)) =>
               (items = f_loaded /\ err = "None")

\* two different files, an include-only pattern matching both and an
\* exclude-all pattern matching neither: both kept, in the loaded order
C12_Witness ==
    /\ f_pc = "done"
    /\ f_include = << <<>> >>
    /\ f_exclude = << <<"b">> >>
    /\ Len(f_loaded) = 2
    /\ f_loaded[1].file = <<"a","b">>
    /\ f_loaded[2].file = <<"a">>
    /\ items = f_loaded

\* a real selection: the first of two records dropped by exclude-all
C12_WitnessDrop ==
    /\ f_pc = "done"
    /\ f_exclude = << <<"b">> >>
    /\ Len(f_loaded) = 2
    /\ f_loaded[1].file = <<"b">>
    /\ items = << f_loaded[2] >>
    /\ f_loaded[2].file = <<"a">>

(* C13: a space separates tokens only outside a double-quote region; every *)
(* double quote toggles the region and appears in no token; all other      *)
(* characters appear in the tokens in input order; two of them are in the  *)
(* same token exactly when no unquoted space lies between them, so after   *)
(* an unterminated quote the rest of the string is in the final token.     *)
C13_InString(i) ==
    Cardinality({j \in 1..(i - 1) : tok_in[j] = "\""}) % 2 = 1

C13_IsSeparator(i) == tok_in[i] = " " /\ ~C13_InString(i)

C13_Kept ==
    SelectSeq([i \in 1..Len(tok_in) |-> i],
              LAMBDA i : tok_in[i] # "\"" /\ ~C13_IsSeparator(i))

RECURSIVE C13_Flat(_, _)
C13_Flat(tokens, k) ==
    IF k > Len(tokens) THEN <<>>
    ELSE [n \in 1..Len(tokens[k]) |-> [ch |-> tokens[k][n], tok |-> k]]
             \o C13_Flat(tokens, k + 1)

C13_QuotingRule ==
    tok_pc = "done" =>
        LET flat == C13_Flat(tok_out, 1)
            kept == C13_Kept
        IN  /\ Len(flat) = Len(kept)
            /\ \A k \in 1..Len(flat) :
                  /\ flat[k].ch = tok_in[kept[k]]
                  /\ flat[k].ch # "\""
            /\ \A k, l \in 1..Len(flat) :
                  k < l =>
                     ((flat[k].tok = flat[l].tok) <=>
                          ~ \E q \in (kept[k] + 1)..(kept[l] - 1) :
                                C13_IsSeparator(q))
            /\ C13_InString(Len(tok_in) + 1) =>
                  \A k \in 1..Len(flat) :
                      (\A j \in kept[k]..Len(tok_in) : tok_in[j] # "\"") =>
                          flat[k].tok = Len(tok_out)

\* a quoted space kept inside the one token of an unterminated quote
C13_Witness ==
    /\ tok_pc = "done"
    /\ tok_in = <<"\"", "a", " ", "-">>
    /\ tok_out = << <<"a", " ", "-">> >>

\* a balanced quote next to an unquoted space
C13_WitnessBalanced ==
    /\ tok_pc = "done"
    /\ tok_in = <<"a", " ", "\"", "\"">>
    /\ tok_out = << <<"a">>, <<>> >>

(* C14: each MSVC-compatible visit of a token starting with /I or -I       *)
(* appends the rest after the two-character prefix to includes, of a token *)
(* starting with /D or -D appends the rest to defines, of any other token  *)
(* changes nothing; after each visit no capture target is pending, so the  *)
(* token after a flag is never captured as its value.                      *)
C14_IsVisit(p) ==
    /\ v_visits' = v_visits + 1
    /\ v_last'.op = "derive_invocation_from"
    /\ v_last'.p = p

C14_MsvcSingleToken ==
    [][C14_IsVisit("msvc") =>
        LET t   == v_last'.param
            id  == visitors["msvc"]._invocation
            isI == StartsWith(t, <<"/","I">>) \/ StartsWith(t, <<"-","I">>)
            isD == StartsWith(t, <<"/","D">>) \/ StartsWith(t, <<"-","D">>)
        IN  /\ visitors'["msvc"]._invocation = id
            /\ visitors'["msvc"]._store_next_param_in = NoTarget
            /\ Len(heap') = Len(heap)
            /\ \A j \in 1..Len(heap) : j # id => heap'[j] = heap[j]
            /\ isI => heap'[id] = [heap[id] EXCEPT
                                      !.includes = Append(@, SliceFrom(t, 2))]
            /\ (~isI /\ isD) =>
                   heap'[id] = [heap[id] EXCEPT
                                   !.defines = Append(@, SliceFrom(t, 2))]
            /\ (~isI /\ ~isD) => heap'[id] = heap[id]]_vars

\* /D visited, then an ordinary token: defines holds the empty rest of /D
\* and the ordinary token was not captured
C14_Witness ==
    /\ v_last = [p |-> "msvc", op |-> "derive_invocation_from",
                 param |-> <<"o">>]
    /\ visitors["msvc"]._invocation = 1
    /\ heap[1] = [includes |-> << <<"y">> >>, defines |-> << <<>> >>]

(* C15: execute, for every record with an Invocation, runs the tool once   *)
(* with working directory equal to the record's directory, after creating  *)
(* that directory when it did not exist, and with the argument vector      *)
(* lint_path/lint_binary, -b, -i"lint_path/lnt", the user flags in order,  *)
(* -d D for each define in order, -i"I" for each include in order, and     *)
(* finally the record's file.                                              *)
C15_IsCall(c) == c.op # "print"

C15_Quoted(s) == <<"-", "i", "\"">> \o s \o <<"\"">>

C15_ArgumentVector ==
    (x_pc = "done" /\ x_item.invocation.kind = "Invocation") =>
        LET inv == heap[x_item.invocation.id]
            calls == SelectSeq(x_log, C15_IsCall)
            argv == calls[Len(calls)].argv
            nf == Len(x_other_args)
            nd == Len(inv.defines)
            ni == Len(inv.includes)
        IN  /\ x_err = "None"
            /\ Len(calls) = IF x_exists THEN 1 ELSE 2
            /\ ~x_exists => calls[1] = Makedirs(x_item.directory)
            /\ calls[Len(calls)].op = "Popen"
            /\ calls[Len(calls)].dir = x_item.directory
            /\ x_item.directory \in x_fs
            /\ Len(argv) = 3 + nf + nd + ni + 1
            /\ argv[1] = IF x_lint_path[Len(x_lint_path)] = "/"
                         THEN x_lint_path \o x_lint_binary
                         ELSE x_lint_path \o <<"/">> \o x_lint_binary
            /\ argv[2] = <<"-", "b">>
            /\ argv[3] = C15_Quoted(x_lint_path \o <<"/", "l", "n", "t">>)
            /\ \A k \in 1..nf : argv[3 + k] = x_other_args[k]
            /\ \A k \in 1..nd :
                   argv[3 + nf + k] = <<"-", "d">> \o inv.defines[k]
            /\ \A k \in 1..ni :
                   argv[3 + nf + nd + k] = C15_Quoted(inv.includes[k])
            /\ argv[Len(argv)] = x_item.file

(* C16: when the previous token armed a capture target of the GCC-         *)
(* compatible visitor, the current token, whatever its text, is appended   *)
(* verbatim to that target, the armed state is cleared, and nothing else   *)
(* is done with the token.                                                 *)
C16_ArmedCaptureFirst ==
    [][(C14_IsVisit("gcc")
        /\ visitors["gcc"]._store_next_param_in # NoTarget) =>
          /\ heap' = AppendTo(heap, visitors["gcc"]._store_next_param_in,
                              v_last'.param)
          /\ visitors'["gcc"]._store_next_param_in = NoTarget]_vars

(* C17: a scalar directly under the record's key directory, command or     *)
(* file sets that attribute and each element of the arguments array is     *)
(* appended to arguments, while an event nested deeper inside the record   *)
(* changes no attribute of the Record.                                     *)
C17_ArgumentsElement ==
    /\ Len(stack) = 3
    /\ stack[3].type = "array"
    /\ stack[2].key = "arguments"
    /\ last_event'.event = "string"

C17_ImmediateChildrenOnly ==
    [][(current_item # NoItem /\ stack[1].type = "array" /\ err' = "None") =>
        /\ (Len(stack) = 2 /\ last_event'.event = "string"
            /\ stack[2].key \in {"directory", "command", "file"}) =>
               current_item' =
                   [current_item EXCEPT ![stack[2].key] = last_event'.value]
        /\ C17_ArgumentsElement =>
               current_item' =
                   [current_item EXCEPT
                       !.arguments = Append(@, last_event'.value)]
        /\ (Len(stack) >= 3 /\ ~C17_ArgumentsElement) =>
               current_item' = current_item]_vars


(* C18: under any interleaving no task is executed more than once; when    *)
(* wait_completion has returned, every record given to map has been        *)
(* executed exactly once, by one Worker, no task is queued and no Worker   *)
(* is still working on one; a Worker whose task raised is not stopped: it  *)
(* goes on through except and finally and takes the next task.             *)
C18_Busy(w) == p_worker[w].pc # "get"

C18_ExactlyOnceAndJoin ==
    /\ \A t \in 1..p_ntasks : Len(p_ran[t]) <= 1
    /\ p_main = "returned" =>
           /\ \A t \in 1..p_ntasks : Len(p_ran[t]) = 1
           /\ p_queue = <<>>
           /\ \A w \in Workers : ~C18_Busy(w)
    /\ \A w \in Workers :
           (C18_Busy(w) \/ p_queue # <<>>) => ENABLED WorkerRun(w)
    /\ \A w \in Workers :
           (p_worker[w].pc \in {"except", "finally"}) =>
               p_unfinished > 0

\* one Worker's task raised, and the same Worker then ran the last task
C18_Witness ==
    /\ p_main = "returned"
    /\ p_num_threads = 2
    /\ p_ntasks = 3
    /\ p_raised = {1}
    /\ p_ran = << <<1>>, <<2>>, <<1>> >>

(* C19: no two Workers are inside the `with Lock(): print(stdout)` section  *)
(* of execute at the same time.                                             *)
C19_MutuallyExclusivePrint ==
    Cardinality({w \in Workers : p_worker[w].pc = "print"}) <= 1

(* C20: when the Workers and the caller are scheduled fairly and every     *)
(* task execution ends, map followed by wait_completion eventually         *)
(* returns, also for more records than the queue holds.                    *)
C20_Terminates == <>(p_main = "returned")

\* three records through a queue of one slot, the second one raising
C20_Witness ==
    /\ p_main = "returned"
    /\ p_num_threads = 1
    /\ p_ntasks = 3
    /\ p_raised = {2}

====
